---------------------------- MODULE Spec2Model ----------------------------
(***************************************************************************)
(* big-red: a one-button web server that runs a dump command on a source   *)
(* host and pipes its standard output, through an in-memory relay, into a  *)
(* restore command on a destination host.                                  *)
(*                                                                         *)
(* The module models the latest version of the program                     *)
(* (src/unnamed/part_000): the shared AppState, the /press and /status     *)
(* handlers, and PerformDump with its deferred calls and its two relay     *)
(* goroutines.  Every run of PerformDump is a goroutine of its own; its    *)
(* local variables are functions over the run's id.                        *)
(*                                                                         *)
(* A pointer to a run's local `start` is modelled by the run's id, the nil *)
(* pointer by Nil.  The bytes of a source stream are numbered 1, 2, 3 ...  *)
(* in the order the source produces them: the relay does not look at the   *)
(* bytes, so distinct bytes show every loss, repetition and reordering.    *)
(***************************************************************************)
EXTENDS Integers, Sequences, FiniteSets, TLC

(* Bounds of the model. *)
MaxRuns == 2        \* goroutines `go state.PerformDump()` may create
MaxPress == 2       \* /press requests handled (system specification)
MaxStream == 1      \* bytes a source produces (system specification)
MaxBytes == 10      \* bytes a source produces (relay specification)

(* Program constants, scaled: cap(buf) of the writer is 1<<21 and len(buf) *)
(* of the reader is 4096 in the source.                                    *)
Threshold == 4
ChunkSize == 2

Runs == 1..MaxRuns
Nil == 0

VARIABLES
    (* AppState, shared by all goroutines *)
    Working,        \* state.Working
    StartTime,      \* state.StartTime: Nil or the run whose `start` it points to
    LastRun,        \* state.LastRun: [Error, StartTime]
    (* the process and its environment *)
    crashed,        \* the process has terminated on an unrecovered panic
    pressed,        \* /press requests handled so far
    launched,       \* PerformDump goroutines created so far
    statusSeen,     \* the last /status response, or NoStatus
    budget,         \* [press, bytes]: what the environment still may do
    (* PerformDump, per run *)
    pc,             \* position of the supervising goroutine
    defers,         \* stack of deferred calls, last registered first
    panicking,      \* the panic value in flight, or NoPanic
    sourceSession,  \* "none", "open", "closed"
    destSession,    \* "none", "open", "closed"
    started,        \* remote commands started, in the order of Start
    (* the relay, per run *)
    storage,        \* bytes.Buffer: the unread bytes
    reading,        \* reading
    bytesRead,      \* bytesRead
    bytesWritten,   \* bytesWritten
    mutex,          \* "free", "reader", "writer"
    rpc,            \* position of the reader goroutine
    wpc,            \* position of the writer goroutine
    rbuf,           \* reader: buf[0:n] of the last Read
    currentlyReading, \* writer: its snapshot of reading
    currentLength,  \* writer: its snapshot of storage.Len()
    wbuf,           \* writer: buf[0:n] of the last storage.Read
    (* the remote ends, per run *)
    upstream,       \* bytes stdoutReader.Read has returned, in call order
    eof,            \* stdoutReader has reported io.EOF
    written,        \* bytes passed to stdinWriter.Write, in call order
    writes,         \* one record [n, open] per stdinWriter.Write call
    stdinClosed,    \* number of stdinWriter.Close calls
    waited,         \* the Wait calls that have returned: subset of {"source","dest"}
    failure,        \* the first failure raised in the run, or ""
    (* the relay of the earlier version (src/server.go), per run *)
    buf,            \* the reader's buf, all len(buf) bytes of it
    length,         \* length
    position        \* writer: position

shared == <<Working, StartTime, LastRun>>
env == <<crashed, pressed, launched, statusSeen, budget>>
super == <<pc, defers, panicking, sourceSession, destSession, started>>
relay == <<storage, reading, bytesRead, bytesWritten, mutex, rpc, wpc, rbuf,
           currentlyReading, currentLength, wbuf>>
remote == <<upstream, eof, written, writes, stdinClosed, waited, failure>>
legacy == <<buf, length, position>>
vars == <<shared, env, super, relay, remote, legacy>>

NoPanic == [kind |-> "none", msg |-> ""]
NoStatus == [seen |-> FALSE]

Min(a, b) == IF a < b THEN a ELSE b

(* NewAppState: &AppState{false, nil, config, logger, LastRun{"", nil}} *)
NewAppState ==
    /\ Working = FALSE
    /\ StartTime = Nil
    /\ LastRun = [Error |-> "", StartTime |-> Nil]

InitRest ==
    /\ NewAppState
    /\ crashed = FALSE
    /\ pressed = 0
    /\ launched = 0
    /\ statusSeen = NoStatus
    /\ pc = [r \in Runs |-> "idle"]
    /\ defers = [r \in Runs |-> <<>>]
    /\ panicking = [r \in Runs |-> NoPanic]
    /\ sourceSession = [r \in Runs |-> "none"]
    /\ destSession = [r \in Runs |-> "none"]
    /\ started = [r \in Runs |-> <<>>]
    /\ storage = [r \in Runs |-> <<>>]
    /\ reading = [r \in Runs |-> FALSE]
    /\ bytesRead = [r \in Runs |-> 0]
    /\ bytesWritten = [r \in Runs |-> 0]
    /\ mutex = [r \in Runs |-> "free"]
    /\ rpc = [r \in Runs |-> "idle"]
    /\ wpc = [r \in Runs |-> "idle"]
    /\ rbuf = [r \in Runs |-> <<>>]
    /\ currentlyReading = [r \in Runs |-> FALSE]
    /\ currentLength = [r \in Runs |-> 0]
    /\ wbuf = [r \in Runs |-> <<>>]
    /\ upstream = [r \in Runs |-> <<>>]
    /\ eof = [r \in Runs |-> FALSE]
    /\ written = [r \in Runs |-> <<>>]
    /\ writes = [r \in Runs |-> <<>>]
    /\ stdinClosed = [r \in Runs |-> 0]
    /\ waited = [r \in Runs |-> {}]
    /\ failure = [r \in Runs |-> ""]
    /\ buf = [r \in Runs |-> <<>>]
    /\ length = [r \in Runs |-> 0]
    /\ position = [r \in Runs |-> 0]

(* The whole system: several /press requests, short source streams. *)
Init ==
    /\ budget = [press |-> MaxPress, bytes |-> MaxStream]
    /\ InitRest

(* One run, long source streams. *)
InitRelay ==
    /\ budget = [press |-> 1, bytes |-> MaxBytes]
    /\ InitRest

-----------------------------------------------------------------------------
(* The HTTP handlers of main. *)

(* A handler that launches a run without looking at state.Working. *)
PressWithoutCheck ==
    /\ ~crashed
    /\ pressed < budget.press
    /\ launched < MaxRuns
    /\ pressed' = pressed + 1
    /\ launched' = launched + 1
    /\ pc' = [pc EXCEPT ![launched + 1] = "start"]
    /\ UNCHANGED <<legacy, shared, crashed, statusSeen, budget, defers, panicking,
                   sourceSession, destSession, started, relay, remote>>

(* m.Post("/press"): if !state.Working { go state.PerformDump() }.  The    *)
(* new goroutine has not run yet when the handler returns.                 *)
Press ==
    /\ ~crashed
    /\ pressed < budget.press
    /\ Working \/ launched < MaxRuns
    /\ pressed' = pressed + 1
    /\ IF ~Working
         THEN /\ launched' = launched + 1
              /\ pc' = [pc EXCEPT ![launched + 1] = "start"]
         ELSE UNCHANGED <<launched, pc>>
    /\ UNCHANGED <<legacy, shared, crashed, statusSeen, budget, defers, panicking,
                   sourceSession, destSession, started, relay, remote>>

(* m.Get("/status"): the JSON of working, startedAt and lastRun.  The four *)
(* fields are read without any lock; the model reads them in one step.     *)
StatusResponse ==
    [seen |-> TRUE, working |-> Working, startedAt |-> StartTime,
     lastRun |-> [error |-> LastRun.Error, startedAt |-> LastRun.StartTime]]

Status ==
    /\ ~crashed
    /\ statusSeen' = StatusResponse
    /\ UNCHANGED <<legacy, shared, crashed, pressed, launched, budget, super, relay, remote>>

-----------------------------------------------------------------------------
(* PerformDump: the supervising goroutine. *)

(* panic(v) in the supervising goroutine: the deferred calls run. *)
Panic(r, msg) ==
    /\ panicking' = [panicking EXCEPT ![r] = [kind |-> "string", msg |-> msg]]
    /\ failure' = [failure EXCEPT ![r] = IF @ = "" THEN msg ELSE @]
    /\ pc' = [pc EXCEPT ![r] = "unwind"]

(* Lines 117-146: the settle closure is deferred, then Working = true. *)
Start(r) ==
    /\ ~crashed
    /\ pc[r] = "start"
    /\ defers' = [defers EXCEPT ![r] = <<"settle">>]
    /\ Working' = TRUE
    /\ pc' = [pc EXCEPT ![r] = "setStartTime"]
    /\ UNCHANGED <<legacy, StartTime, LastRun, env, panicking, sourceSession, destSession,
                   started, relay, remote>>

(* Line 147: state.StartTime = &start *)
SetStartTime(r) ==
    /\ ~crashed
    /\ pc[r] = "setStartTime"
    /\ StartTime' = r
    /\ pc' = [pc EXCEPT ![r] = "newSourceSession"]
    /\ UNCHANGED <<legacy, Working, LastRun, env, defers, panicking, sourceSession,
                   destSession, started, relay, remote>>

(* newSession: ssh.Dial and client.NewSession each may fail, with a panic. *)
SessionOutcomes == {"ok", "Failed to dial", "Failed to create session"}

(* Lines 151-152 *)
NewSourceSession(r) ==
    /\ ~crashed
    /\ pc[r] = "newSourceSession"
    /\ \E o \in SessionOutcomes :
         IF o = "ok"
           THEN /\ sourceSession' = [sourceSession EXCEPT ![r] = "open"]
                /\ defers' = [defers EXCEPT ![r] = <<"sourceSession.Close">> \o @]
                /\ pc' = [pc EXCEPT ![r] = "newDestinationSession"]
                /\ UNCHANGED <<panicking, failure>>
           ELSE /\ Panic(r, o)
                /\ UNCHANGED <<sourceSession, defers>>
    /\ UNCHANGED <<legacy, shared, env, destSession, started, relay,
                   upstream, eof, written, writes, stdinClosed, waited>>

(* Lines 154-155 *)
NewDestinationSession(r) ==
    /\ ~crashed
    /\ pc[r] = "newDestinationSession"
    /\ \E o \in SessionOutcomes :
         IF o = "ok"
           THEN /\ destSession' = [destSession EXCEPT ![r] = "open"]
                /\ defers' = [defers EXCEPT ![r] = <<"destSession.Close">> \o @]
                /\ pc' = [pc EXCEPT ![r] = "pipes"]
                /\ UNCHANGED <<panicking, failure>>
           ELSE /\ Panic(r, o)
                /\ UNCHANGED <<destSession, defers>>
    /\ UNCHANGED <<legacy, shared, env, sourceSession, started, relay,
                   upstream, eof, written, writes, stdinClosed, waited>>

(* Lines 157-171: StdoutPipe and StdinPipe *)
Pipes(r) ==
    /\ ~crashed
    /\ pc[r] = "pipes"
    /\ \E ok \in BOOLEAN :
         IF ok
           THEN /\ pc' = [pc EXCEPT ![r] = "startSource"]
                /\ UNCHANGED <<panicking, failure>>
           ELSE Panic(r, "Could create pipe")
    /\ UNCHANGED <<legacy, shared, env, defers, sourceSession, destSession, started, relay,
                   upstream, eof, written, writes, stdinClosed, waited>>

(* A supervisor that goes on to the relay once the source command runs,   *)
(* without starting the destination command.                               *)
StartSourceOnly(r) ==
    /\ ~crashed
    /\ pc[r] = "startSource"
    /\ \E ok \in BOOLEAN :
         IF ok
           THEN /\ started' = [started EXCEPT ![r] = Append(@, "source")]
                /\ pc' = [pc EXCEPT ![r] = "spawn"]
                /\ UNCHANGED <<panicking, failure>>
           ELSE /\ Panic(r, "Failed to run source command")
                /\ UNCHANGED started
    /\ UNCHANGED <<legacy, shared, env, defers, sourceSession, destSession, relay,
                   upstream, eof, written, writes, stdinClosed, waited>>

(* Lines 173-175: sourceSession.Start *)
StartSource(r) ==
    /\ ~crashed
    /\ pc[r] = "startSource"
    /\ \E ok \in BOOLEAN :
         IF ok
           THEN /\ started' = [started EXCEPT ![r] = Append(@, "source")]
                /\ pc' = [pc EXCEPT ![r] = "startDest"]
                /\ UNCHANGED <<panicking, failure>>
           ELSE /\ Panic(r, "Failed to run source command")
                /\ UNCHANGED started
    /\ UNCHANGED <<legacy, shared, env, defers, sourceSession, destSession, relay,
                   upstream, eof, written, writes, stdinClosed, waited>>

(* Lines 177-179: destSession.Start *)
StartDest(r) ==
    /\ ~crashed
    /\ pc[r] = "startDest"
    /\ \E ok \in BOOLEAN :
         IF ok
           THEN /\ started' = [started EXCEPT ![r] = Append(@, "dest")]
                /\ pc' = [pc EXCEPT ![r] = "spawn"]
                /\ UNCHANGED <<panicking, failure>>
           ELSE /\ Panic(r, "Failed to run destination command")
                /\ UNCHANGED started
    /\ UNCHANGED <<legacy, shared, env, defers, sourceSession, destSession, relay,
                   upstream, eof, written, writes, stdinClosed, waited>>

(* Lines 181-225: the relay's variables and its two goroutines *)
Spawn(r) ==
    /\ ~crashed
    /\ pc[r] = "spawn"
    /\ storage' = [storage EXCEPT ![r] = <<>>]
    /\ reading' = [reading EXCEPT ![r] = TRUE]
    /\ bytesRead' = [bytesRead EXCEPT ![r] = 0]
    /\ bytesWritten' = [bytesWritten EXCEPT ![r] = 0]
    /\ mutex' = [mutex EXCEPT ![r] = "free"]
    /\ rpc' = [rpc EXCEPT ![r] = "read"]
    /\ wpc' = [wpc EXCEPT ![r] = "lock"]
    /\ pc' = [pc EXCEPT ![r] = "wg.Wait"]
    /\ UNCHANGED <<legacy, shared, env, defers, panicking, sourceSession, destSession,
                   started, rbuf, currentlyReading, currentLength, wbuf, remote>>

(* Line 269-270: wg.Wait(), then PerformDump returns: the deferred calls run *)
WgWait(r) ==
    /\ ~crashed
    /\ pc[r] = "wg.Wait"
    /\ rpc[r] = "done"
    /\ wpc[r] = "done"
    /\ pc' = [pc EXCEPT ![r] = "unwind"]
    /\ UNCHANGED <<legacy, shared, env, defers, panicking, sourceSession, destSession,
                   started, relay, remote>>

(* The deferred calls, last registered first (lines 155, 152, 117). *)
RunDeferred(r) ==
    /\ ~crashed
    /\ pc[r] = "unwind"
    /\ defers[r] # <<>>
    /\ defers' = [defers EXCEPT ![r] = Tail(@)]
    /\ destSession' = [destSession EXCEPT ![r] =
                         IF Head(defers[r]) = "destSession.Close" THEN "closed" ELSE @]
    /\ sourceSession' = [sourceSession EXCEPT ![r] =
                         IF Head(defers[r]) = "sourceSession.Close" THEN "closed" ELSE @]
    /\ pc' = [pc EXCEPT ![r] = IF Head(defers[r]) = "settle" THEN "recover" ELSE @]
    /\ UNCHANGED <<legacy, shared, env, panicking, started, relay, remote>>

(* Lines 118-135: what the settle closure stores in state.LastRun.Error.   *)
(* A string is stored as it is, an error as its message; any other panic   *)
(* value leaves the field as it was.                                       *)
RecoveredError(p, old) ==
    CASE p.kind = "none" -> ""
      [] p.kind = "string" -> p.msg
      [] p.kind = "error" -> p.msg
      [] OTHER -> old

(* Lines 118-135: recover() *)
Recover(r) ==
    /\ ~crashed
    /\ pc[r] = "recover"
    /\ LastRun' = [LastRun EXCEPT !.Error = RecoveredError(panicking[r], @)]
    /\ panicking' = [panicking EXCEPT ![r] = NoPanic]
    /\ pc' = [pc EXCEPT ![r] = "copyStartTime"]
    /\ UNCHANGED <<legacy, Working, StartTime, env, defers, sourceSession, destSession,
                   started, relay, remote>>

(* Line 137: state.LastRun.StartTime = state.StartTime *)
CopyStartTime(r) ==
    /\ ~crashed
    /\ pc[r] = "copyStartTime"
    /\ LastRun' = [LastRun EXCEPT !.StartTime = StartTime]
    /\ pc' = [pc EXCEPT ![r] = "elapsed"]
    /\ UNCHANGED <<legacy, Working, StartTime, env, defers, panicking, sourceSession,
                   destSession, started, relay, remote>>

(* Lines 139, 272-274: state.Elapsed() dereferences state.StartTime; a nil *)
(* pointer panics inside the deferred closure, where nothing recovers it.  *)
Elapsed(r) ==
    /\ ~crashed
    /\ pc[r] = "elapsed"
    /\ IF StartTime = Nil
         THEN /\ crashed' = TRUE
              /\ failure' = [failure EXCEPT ![r] = IF @ = "" THEN "nil dereference" ELSE @]
              /\ UNCHANGED pc
         ELSE /\ pc' = [pc EXCEPT ![r] = "clearWorking"]
              /\ UNCHANGED <<crashed, failure>>
    /\ UNCHANGED <<legacy, shared, pressed, launched, statusSeen, budget, defers, panicking,
                   sourceSession, destSession, started, relay,
                   upstream, eof, written, writes, stdinClosed, waited>>

(* Line 141: state.Working = false *)
ClearWorking(r) ==
    /\ ~crashed
    /\ pc[r] = "clearWorking"
    /\ Working' = FALSE
    /\ pc' = [pc EXCEPT ![r] = "clearStartTime"]
    /\ UNCHANGED <<legacy, StartTime, LastRun, env, defers, panicking, sourceSession,
                   destSession, started, relay, remote>>

(* Line 142: state.StartTime = nil *)
ClearStartTime(r) ==
    /\ ~crashed
    /\ pc[r] = "clearStartTime"
    /\ StartTime' = Nil
    /\ pc' = [pc EXCEPT ![r] = "done"]
    /\ UNCHANGED <<legacy, Working, LastRun, env, defers, panicking, sourceSession,
                   destSession, started, relay, remote>>

-----------------------------------------------------------------------------
(* The relay: the reader goroutine (lines 188-223). *)

(* panic(v) in a goroutine that defers no recover: the runtime prints the  *)
(* panic and terminates the process; PerformDump's recover is on another   *)
(* goroutine's stack and does not see it.                                  *)
GoPanic(r, msg) ==
    /\ crashed' = TRUE
    /\ failure' = [failure EXCEPT ![r] = IF @ = "" THEN msg ELSE @]

(* The bytes of the source stream from position a+1 to position a+n. *)
SourceBytes(a, n) == [i \in 1..n |-> a + i]

(* What stdoutReader.Read(buf) may return: n bytes (at most len(buf)) with *)
(* no error, with io.EOF or with another error; after io.EOF only (0, EOF).*)
ReadOutcomes(r) ==
    IF eof[r]
      THEN {[n |-> 0, err |-> "EOF"]}
      ELSE [n : 0..Min(ChunkSize, budget.bytes - Len(upstream[r])),
            err : {"nil", "EOF", "fail"}]

(* Lines 194-200 *)
Read(r) ==
    /\ ~crashed
    /\ rpc[r] = "read"
    /\ \E o \in ReadOutcomes(r) :
         /\ upstream' = [upstream EXCEPT ![r] = @ \o SourceBytes(Len(@), o.n)]
         /\ eof' = [eof EXCEPT ![r] = @ \/ o.err = "EOF"]
         /\ IF o.err = "fail"
              THEN /\ GoPanic(r, "read error")
                   /\ UNCHANGED <<rpc, rbuf>>
              ELSE /\ rpc' = [rpc EXCEPT ![r] = IF o.n = 0 THEN "lockDone" ELSE "lockCount"]
                   /\ rbuf' = [rbuf EXCEPT ![r] = SourceBytes(Len(upstream[r]), o.n)]
                   /\ UNCHANGED <<crashed, failure>>
    /\ UNCHANGED <<legacy, shared, pressed, launched, statusSeen, budget, super,
                   storage, reading, bytesRead, bytesWritten, mutex, wpc,
                   currentlyReading, currentLength, wbuf,
                   written, writes, stdinClosed, waited>>

(* Lines 202, 206, 214: mutex.Lock() *)
ReaderLock(r) ==
    /\ ~crashed
    /\ rpc[r] \in {"lockCount", "lockStore", "lockDone"}
    /\ mutex[r] = "free"
    /\ mutex' = [mutex EXCEPT ![r] = "reader"]
    /\ rpc' = [rpc EXCEPT ![r] = CASE @ = "lockCount" -> "count"
                                   [] @ = "lockStore" -> "store"
                                   [] @ = "lockDone" -> "setDone"]
    /\ UNCHANGED <<legacy, shared, env, super, storage, reading, bytesRead, bytesWritten,
                   wpc, rbuf, currentlyReading, currentLength, wbuf, remote>>

(* Lines 203-204: bytesRead += n; mutex.Unlock() *)
Count(r) ==
    /\ ~crashed
    /\ rpc[r] = "count"
    /\ bytesRead' = [bytesRead EXCEPT ![r] = @ + Len(rbuf[r])]
    /\ mutex' = [mutex EXCEPT ![r] = "free"]
    /\ rpc' = [rpc EXCEPT ![r] = "lockStore"]
    /\ UNCHANGED <<legacy, shared, env, super, storage, reading, bytesWritten,
                   wpc, rbuf, currentlyReading, currentLength, wbuf, remote>>

(* A buffer that keeps only the last chunk written to it. *)
BufferWriteOverwrite(b, p) == p

(* bytes.Buffer.Write(p): p is appended to the unread bytes. *)
BufferWrite(b, p) == b \o p

(* Lines 207-211: storage.Write(buf[0:n]); mutex.Unlock() *)
Store(r) ==
    /\ ~crashed
    /\ rpc[r] = "store"
    /\ storage' = [storage EXCEPT ![r] = BufferWrite(@, rbuf[r])]
    /\ mutex' = [mutex EXCEPT ![r] = "free"]
    /\ rpc' = [rpc EXCEPT ![r] = "read"]
    /\ UNCHANGED <<legacy, shared, env, super, reading, bytesRead, bytesWritten,
                   wpc, rbuf, currentlyReading, currentLength, wbuf, remote>>

(* Lines 215-216: reading = false; mutex.Unlock() *)
SetDone(r) ==
    /\ ~crashed
    /\ rpc[r] = "setDone"
    /\ reading' = [reading EXCEPT ![r] = FALSE]
    /\ mutex' = [mutex EXCEPT ![r] = "free"]
    /\ rpc' = [rpc EXCEPT ![r] = "sourceWait"]
    /\ UNCHANGED <<legacy, shared, env, super, storage, bytesRead, bytesWritten,
                   wpc, rbuf, currentlyReading, currentLength, wbuf, remote>>

(* Lines 218-223: sourceSession.Wait(), then the deferred wg.Done() *)
SourceWait(r) ==
    /\ ~crashed
    /\ rpc[r] = "sourceWait"
    /\ \E ok \in BOOLEAN :
         IF ok
           THEN /\ waited' = [waited EXCEPT ![r] = @ \cup {"source"}]
                /\ rpc' = [rpc EXCEPT ![r] = "done"]
                /\ UNCHANGED <<crashed, failure>>
           ELSE /\ GoPanic(r, "Source command failed")
                /\ UNCHANGED <<waited, rpc>>
    /\ UNCHANGED <<legacy, shared, pressed, launched, statusSeen, budget, super,
                   storage, reading, bytesRead, bytesWritten, mutex, wpc, rbuf,
                   currentlyReading, currentLength, wbuf,
                   upstream, eof, written, writes, stdinClosed>>

-----------------------------------------------------------------------------
(* The relay: the writer goroutine (lines 226-267). *)

(* Lines 232, 244: mutex.Lock() *)
WriterLock(r) ==
    /\ ~crashed
    /\ wpc[r] \in {"lock", "lockTake"}
    /\ mutex[r] = "free"
    /\ mutex' = [mutex EXCEPT ![r] = "writer"]
    /\ wpc' = [wpc EXCEPT ![r] = IF @ = "lock" THEN "snapshot" ELSE "take"]
    /\ UNCHANGED <<legacy, shared, env, super, storage, reading, bytesRead, bytesWritten,
                   rpc, rbuf, currentlyReading, currentLength, wbuf, remote>>

(* A writer that leaves its loop on an empty buffer without looking at     *)
(* reading.                                                                *)
WriterDecisionEmptyBreaks(isReading, len) ==
    IF len <= 0 THEN "closeStdin"
    ELSE IF isReading /\ len < Threshold THEN "lock"
    ELSE "lockTake"

(* A writer that leaves its loop only on a negative length, so that it    *)
(* goes on to read an empty buffer once the upstream has ended.            *)
WriterDecisionOffByOne(isReading, len) ==
    IF isReading /\ len < Threshold THEN "lock"
    ELSE IF ~isReading /\ len < 0 THEN "closeStdin"
    ELSE "lockTake"

(* Lines 237-242: what the writer does with its snapshot: go round the     *)
(* loop again, leave the loop, or take bytes from the buffer.              *)
WriterDecision(isReading, len) ==
    IF isReading /\ len < Threshold THEN "lock"
    ELSE IF ~isReading /\ len <= 0 THEN "closeStdin"
    ELSE "lockTake"

(* Lines 233-242 *)
Snapshot(r) ==
    /\ ~crashed
    /\ wpc[r] = "snapshot"
    /\ currentlyReading' = [currentlyReading EXCEPT ![r] = reading[r]]
    /\ currentLength' = [currentLength EXCEPT ![r] = Len(storage[r])]
    /\ mutex' = [mutex EXCEPT ![r] = "free"]
    /\ wpc' = [wpc EXCEPT ![r] = WriterDecision(reading[r], Len(storage[r]))]
    /\ UNCHANGED <<legacy, shared, env, super, storage, reading, bytesRead, bytesWritten,
                   rpc, rbuf, wbuf, remote>>

(* A read that copies all the unread bytes, whatever the size of p. *)
BufferReadAll(b, size) == Len(b)

(* bytes.Buffer.Read(p) with len(p) = size: the number of bytes it copies; *)
(* 0, with io.EOF, when the buffer is empty.                               *)
BufferRead(b, size) == Min(Len(b), size)

(* A writer that unlocks the mutex only after it has written the bytes to  *)
(* the destination: it enters stdinWriter.Write holding the mutex.         *)
TakeKeepingMutex(r) ==
    /\ ~crashed
    /\ wpc[r] = "take"
    /\ LET n == Min(Len(storage[r]), Threshold)
       IN  /\ wbuf' = [wbuf EXCEPT ![r] = SubSeq(storage[r], 1, n)]
           /\ storage' = [storage EXCEPT ![r] = SubSeq(@, n + 1, Len(@))]
           /\ UNCHANGED mutex
           /\ IF Len(storage[r]) = 0
                THEN /\ GoPanic(r, "EOF")
                     /\ UNCHANGED wpc
                ELSE /\ wpc' = [wpc EXCEPT ![r] = "write"]
                     /\ UNCHANGED <<crashed, failure>>
    /\ UNCHANGED <<legacy, shared, pressed, launched, statusSeen, budget, super,
                   reading, bytesRead, bytesWritten, rpc, rbuf,
                   currentlyReading, currentLength,
                   upstream, eof, written, writes, stdinClosed, waited>>

(* Lines 245-249: storage.Read(buf); mutex.Unlock(); panic on io.EOF *)
Take(r) ==
    /\ ~crashed
    /\ wpc[r] = "take"
    /\ LET n == BufferRead(storage[r], Threshold)
       IN  /\ wbuf' = [wbuf EXCEPT ![r] = SubSeq(storage[r], 1, n)]
           /\ storage' = [storage EXCEPT ![r] = SubSeq(@, n + 1, Len(@))]
           /\ mutex' = [mutex EXCEPT ![r] = "free"]
           /\ IF Len(storage[r]) = 0
                THEN /\ GoPanic(r, "EOF")
                     /\ UNCHANGED wpc
                ELSE /\ wpc' = [wpc EXCEPT ![r] = "write"]
                     /\ UNCHANGED <<crashed, failure>>
    /\ UNCHANGED <<legacy, shared, pressed, launched, statusSeen, budget, super,
                   reading, bytesRead, bytesWritten, rpc, rbuf,
                   currentlyReading, currentLength,
                   upstream, eof, written, writes, stdinClosed, waited>>

(* Lines 251-257: stdinWriter.Write(buf[0:n]); bytesWritten += n *)
Write(r) ==
    /\ ~crashed
    /\ wpc[r] = "write"
    /\ \E ok \in BOOLEAN :
         IF ok
           THEN /\ written' = [written EXCEPT ![r] = @ \o wbuf[r]]
                /\ writes' = [writes EXCEPT ![r] =
                                Append(@, [n |-> Len(wbuf[r]), open |-> reading[r]])]
                /\ bytesWritten' = [bytesWritten EXCEPT ![r] = @ + Len(wbuf[r])]
                /\ wpc' = [wpc EXCEPT ![r] = "lock"]
                /\ UNCHANGED <<crashed, failure>>
           ELSE /\ GoPanic(r, "write error")
                /\ UNCHANGED <<written, writes, bytesWritten, wpc>>
    /\ UNCHANGED <<legacy, shared, pressed, launched, statusSeen, budget, super,
                   storage, reading, bytesRead, mutex, rpc, rbuf,
                   currentlyReading, currentLength, wbuf,
                   upstream, eof, stdinClosed, waited>>

(* Lines 260-263: stdinWriter.Close() *)
CloseStdin(r) ==
    /\ ~crashed
    /\ wpc[r] = "closeStdin"
    /\ stdinClosed' = [stdinClosed EXCEPT ![r] = @ + 1]
    /\ wpc' = [wpc EXCEPT ![r] = "destWait"]
    /\ UNCHANGED <<legacy, shared, env, super, storage, reading, bytesRead, bytesWritten,
                   mutex, rpc, rbuf, currentlyReading, currentLength, wbuf,
                   upstream, eof, written, writes, waited, failure>>

(* Lines 264-267: destSession.Wait(), then the deferred wg.Done() *)
DestWait(r) ==
    /\ ~crashed
    /\ wpc[r] = "destWait"
    /\ \E ok \in BOOLEAN :
         IF ok
           THEN /\ waited' = [waited EXCEPT ![r] = @ \cup {"dest"}]
                /\ wpc' = [wpc EXCEPT ![r] = "done"]
                /\ UNCHANGED <<crashed, failure>>
           ELSE /\ GoPanic(r, "Destination command failed")
                /\ UNCHANGED <<waited, wpc>>
    /\ UNCHANGED <<legacy, shared, pressed, launched, statusSeen, budget, super,
                   storage, reading, bytesRead, bytesWritten, mutex, rpc, rbuf,
                   currentlyReading, currentLength, wbuf,
                   upstream, eof, written, writes, stdinClosed>>

-----------------------------------------------------------------------------
Next ==
    \/ Press
    \/ Status
    \/ \E r \in Runs :
         \/ Start(r)
         \/ SetStartTime(r)
         \/ NewSourceSession(r)
         \/ NewDestinationSession(r)
         \/ Pipes(r)
         \/ StartSource(r)
         \/ StartDest(r)
         \/ Spawn(r)
         \/ WgWait(r)
         \/ RunDeferred(r)
         \/ Recover(r)
         \/ CopyStartTime(r)
         \/ Elapsed(r)
         \/ ClearWorking(r)
         \/ ClearStartTime(r)
         \/ Read(r)
         \/ ReaderLock(r)
         \/ Count(r)
         \/ Store(r)
         \/ SetDone(r)
         \/ SourceWait(r)
         \/ WriterLock(r)
         \/ Snapshot(r)
         \/ Take(r)
         \/ Write(r)
         \/ CloseStdin(r)
         \/ DestWait(r)

(* The whole system. *)
Spec == Init /\ [][Next]_vars

(* One run of PerformDump with a long source stream. *)
SpecRelay == InitRelay /\ [][Next]_vars

-----------------------------------------------------------------------------
(* Scheduling.  Every run is three goroutines: the supervisor, the reader  *)
(* and the writer.                                                         *)

SupervisorStep(r) ==
    \/ Start(r) \/ SetStartTime(r) \/ NewSourceSession(r)
    \/ NewDestinationSession(r) \/ Pipes(r) \/ StartSource(r) \/ StartDest(r)
    \/ Spawn(r) \/ WgWait(r) \/ RunDeferred(r) \/ Recover(r)
    \/ CopyStartTime(r) \/ Elapsed(r) \/ ClearWorking(r) \/ ClearStartTime(r)

ReaderStep(r) ==
    \/ Read(r) \/ ReaderLock(r) \/ Count(r) \/ Store(r) \/ SetDone(r)
    \/ SourceWait(r)

WriterStep(r) ==
    \/ WriterLock(r) \/ Snapshot(r) \/ Take(r) \/ Write(r) \/ CloseStdin(r)
    \/ DestWait(r)

(* The Go scheduler runs every runnable goroutine again and again, every   *)
(* call to the remote ends returns, and a goroutine blocked in             *)
(* mutex.Lock() gets the mutex in the end although the other goroutine     *)
(* keeps taking and releasing it (strong fairness for reader and writer).  *)
Fairness ==
    \A r \in Runs :
        /\ WF_vars(SupervisorStep(r))
        /\ SF_vars(ReaderStep(r))
        /\ SF_vars(WriterStep(r))

(* One run with a long source stream under fair scheduling. *)
SpecRelayFair == InitRelay /\ [][Next]_vars /\ Fairness

-----------------------------------------------------------------------------
(* Properties. *)

(* The writer of run r has left its loop (line 241). *)
WriterLeftLoop(r) == wpc[r] \in {"closeStdin", "destWait", "done"}

(* Run r is over: PerformDump has returned, or the process has terminated  *)
(* under it.                                                               *)
RunOver(r) == pc[r] = "done" \/ (crashed /\ pc[r] # "idle")

(* Run r has been launched and has not settled. *)
Executing(r) == pc[r] \notin {"idle", "done"}

(* The sizes of the Write calls of run r, in call order. *)
WriteSizes(r) == [i \in 1..Len(writes[r]) |-> writes[r][i].n]

(* floor(N/T) writes of T bytes, then one of N mod T bytes if that is not 0. *)
ExpectedSizes(N, T) ==
    [i \in 1..((N \div T) + (IF N % T = 0 THEN 0 ELSE 1)) |->
        IF i <= N \div T THEN T ELSE N % T]

(* C1: when the writer has left its loop, the bytes passed to              *)
(* stdinWriter.Write, in call order, are the bytes stdoutReader.Read       *)
(* returned, in call order: none lost, repeated or out of order.           *)
C1_NoLossNoReorder ==
    \A r \in Runs : WriterLeftLoop(r) => written[r] = upstream[r]

(* A run has relayed two thresholds and a remainder. *)
C1_Witness ==
    \E r \in Runs :
        /\ wpc[r] = "closeStdin"
        /\ Len(upstream[r]) = 2 * Threshold + 2
        /\ written[r] = upstream[r]

(* C2: at most one run is executing at any time: two /press requests never *)
(* both launch PerformDump before the first launched run has settled.      *)
C2_SingleFlight ==
    Cardinality({r \in Runs : Executing(r)}) <= 1

(* C3: no failure raised in a run terminates the process. *)
C3_NoProcessCrash == ~crashed

(* C4: once a run in which a failure was raised is over, Working is false, *)
(* StartTime is nil and LastRun.Error is the message of that failure.      *)
C4_GuaranteedSettle ==
    \A r \in Runs :
        (RunOver(r) /\ failure[r] # "") =>
            /\ Working = FALSE
            /\ StartTime = Nil
            /\ LastRun.Error = failure[r]

(* C5: the relay buffer never holds more than one threshold plus one       *)
(* upstream chunk.                                                         *)
C5_BackpressureBound ==
    \A r \in Runs : Len(storage[r]) <= Threshold + ChunkSize

(* C6: a /status response shows either a running state (working, start     *)
(* time set, lastRun not yet that of the current run) or an idle state     *)
(* (not working, no start time), never a mixture.                          *)
C6_StatusConsistent ==
    statusSeen.seen =>
        \/ /\ statusSeen.working
           /\ statusSeen.startedAt # Nil
           /\ statusSeen.lastRun.startedAt # statusSeen.startedAt
        \/ /\ ~statusSeen.working
           /\ statusSeen.startedAt = Nil

(* C7: when a run in which no failure occurred settles, LastRun.Error is   *)
(* "" and LastRun.StartTime is the start time that run recorded.           *)
C7_SuccessClearsError ==
    [][\A r \in Runs :
         (pc[r] # "done" /\ pc'[r] = "done" /\ failure[r] = "") =>
             /\ LastRun'.Error = ""
             /\ LastRun'.StartTime = r]_vars

(* C8: stdinWriter.Close is called at most once per run, and only when     *)
(* reading is false and every byte appended to the buffer has been passed  *)
(* to stdinWriter.Write.                                                   *)
C8_CloseOnlyAfterFlush ==
    \A r \in Runs :
        /\ stdinClosed[r] <= 1
        /\ stdinClosed[r] = 1 =>
             /\ reading[r] = FALSE
             /\ storage[r] = <<>>
             /\ Len(written[r]) = bytesRead[r]
             /\ bytesWritten[r] = bytesRead[r]

(* The destination's input has been closed after more than a threshold of  *)
(* bytes went through the relay.                                           *)
C8_Witness ==
    \E r \in Runs : stdinClosed[r] = 1 /\ Len(written[r]) > Threshold

(* C9: both sessions a run opened are closed once the run is over. *)
C9_SessionsClosed ==
    \A r \in Runs :
        RunOver(r) => sourceSession[r] # "open" /\ destSession[r] # "open"

(* C10: no write is empty or larger than the threshold, a write made while *)
(* reading is true is exactly one threshold, and when the writer has left  *)
(* its loop the write sizes are those N and T alone determine.             *)
C10_WriteSizes ==
    \A r \in Runs :
        /\ \A i \in 1..Len(writes[r]) :
             /\ writes[r][i].n \in 1..Threshold
             /\ writes[r][i].open => writes[r][i].n = Threshold
        /\ WriterLeftLoop(r) =>
             WriteSizes(r) = ExpectedSizes(Len(upstream[r]), Threshold)

(* Ten bytes with a threshold of four were written as 4, 4 and 2 bytes. *)
C10_Witness ==
    \E r \in Runs :
        /\ WriterLeftLoop(r)
        /\ Len(upstream[r]) = 10
        /\ WriteSizes(r) = <<4, 4, 2>>

(* C11: a /press request handled while Working is true launches no run and *)
(* leaves Working, StartTime and LastRun as they were.                     *)
C11_BusyPressIsNoOp ==
    [][(pressed' = pressed + 1 /\ Working) =>
          /\ launched' = launched
          /\ pc' = pc
          /\ shared' = shared]_vars

(* A /press request was handled and launched nothing, and the run it found *)
(* in progress is still executing: the handler did not wait for it.        *)
C11_Witness ==
    /\ pressed > launched
    /\ Working
    /\ \E r \in Runs : Executing(r)

(* The messages of the panics raised on an error of sourceSession.Wait and *)
(* of destSession.Wait.                                                    *)
WaitFailures == {"Source command failed", "Destination command failed"}

(* C12: a run whose relay was started settles only after both Wait calls   *)
(* have returned, and a run in which a Wait call returned an error ends    *)
(* as a failed run with that error's message in LastRun.Error.             *)
C12_WaitThenSettle ==
    \A r \in Runs :
        /\ (pc[r] \in {"clearStartTime", "done"} /\ rpc[r] # "idle") =>
               waited[r] = {"source", "dest"}
        /\ (RunOver(r) /\ failure[r] \in WaitFailures) =>
               LastRun.Error = failure[r]

(* The writer of run r has looked at the buffer, found the upstream open   *)
(* and less than a threshold buffered, and that is still so.               *)
WriterMustWait(r) ==
    /\ wpc[r] = "lock"
    /\ currentlyReading[r] /\ currentLength[r] < Threshold
    /\ reading[r] /\ Len(storage[r]) < Threshold

(* C13: while the upstream is open and less than a threshold is buffered,  *)
(* the writer is blocked: it has no step of its own to take, and does not  *)
(* take the mutex again to look at the buffer once more.                   *)
C13_WriterBlocks ==
    \A r \in Runs : WriterMustWait(r) => ~ENABLED WriterLock(r)

(* C14: in every run the destination command is started before the source *)
(* command.                                                                *)
C14_DestStartedFirst ==
    \A r \in Runs : started[r] # <<>> => Head(started[r]) = "dest"

(* C14, amended: in every run the source command is started first and the  *)
(* destination command second, and both have been started before the      *)
(* relay reads from the source or writes to the destination.               *)
C14_SourceThenDestBeforeRelay ==
    \A r \in Runs :
        /\ started[r] \in {<<>>, <<"source">>, <<"source", "dest">>}
        /\ (rpc[r] # "idle" \/ wpc[r] # "idle") => started[r] = <<"source", "dest">>

(* Both commands were started, source first, and bytes reached the         *)
(* destination.                                                            *)
C14_Witness ==
    \E r \in Runs : started[r] = <<"source", "dest">> /\ Len(written[r]) > 0

(* C15: the reader has set reading to false only if the upstream has       *)
(* reported end-of-stream, and by then every byte a Read returned has been *)
(* appended to the buffer.                                                 *)
C15_DoneOnlyAfterEOF ==
    \A r \in Runs :
        rpc[r] \in {"sourceWait", "done"} =>
            /\ eof[r]
            /\ bytesRead[r] = Len(upstream[r])

(* C18: whenever the settle closure is about to call Elapsed(), the shared *)
(* StartTime is not nil, and no run ends on a nil dereference.             *)
C18_ElapsedNeverNil ==
    \A r \in Runs :
        /\ pc[r] = "elapsed" => StartTime # Nil
        /\ failure[r] # "nil dereference"

(* C19: whenever the writer is about to execute storage.Read, the buffer   *)
(* holds at least one byte, and at least a threshold if the writer's       *)
(* snapshot saw reading true; storage.Read never returns io.EOF.           *)
C19_TakeNeverEmpty ==
    \A r \in Runs :
        /\ wpc[r] \in {"lockTake", "take"} =>
             /\ Len(storage[r]) >= 1
             /\ currentlyReading[r] => Len(storage[r]) >= Threshold
        /\ failure[r] # "EOF"

(* The writer is about to read the buffer, and the reader has appended to  *)
(* it since the writer's snapshot.                                         *)
C19_Witness ==
    \E r \in Runs :
        /\ wpc[r] = "take"
        /\ currentlyReading[r]
        /\ Len(storage[r]) > currentLength[r]

(* C20: a goroutine inside a network call (the reader in stdoutReader.Read *)
(* or sourceSession.Wait, the writer in stdinWriter.Write or               *)
(* destSession.Wait) does not hold the relay mutex.                        *)
C20_NoMutexAcrossIO ==
    \A r \in Runs :
        /\ rpc[r] \in {"read", "sourceWait"} => mutex[r] # "reader"
        /\ wpc[r] \in {"write", "destWait"} => mutex[r] # "writer"

(* The reader holds the mutex and appends while the writer is inside       *)
(* stdinWriter.Write.                                                      *)
C20_Witness ==
    \E r \in Runs :
        /\ wpc[r] = "write"
        /\ rpc[r] = "store"
        /\ mutex[r] = "reader"

(* The failures that are not the failure of an I/O call or of a remote     *)
(* command: faults of the program itself.                                  *)
InternalFaults == {"nil dereference", "EOF"}

(* An I/O call has failed or a remote command has exited with an error, in *)
(* some run.                                                               *)
IOFailed == \E q \in Runs : failure[q] \notin ({""} \cup InternalFaults)

(* Some goroutine of run r has a step to take. *)
CanStep(r) == ENABLED (SupervisorStep(r) \/ ReaderStep(r) \/ WriterStep(r))

(* C17: a launched run in which no I/O call fails and both commands exit   *)
(* successfully goes on until it has settled: as long as it has not        *)
(* reached the end of PerformDump, one of its goroutines has a step to     *)
(* take (no deadlock, no termination short of Working = false).            *)
C17_RunGoesOnToSettle ==
    \A r \in Runs : (Executing(r) /\ ~IOFailed) => CanStep(r)

(* What holds of C17 with one run at a time (SpecRelayFair): under fair    *)
(* scheduling a launched run settles in the end or an I/O call has failed; *)
(* the writer's loop does not go on for ever.                              *)
SingleRunSettles ==
    \A r \in Runs : (pc[r] = "start") ~> (pc[r] = "done" \/ IOFailed)

-----------------------------------------------------------------------------
(* The relay of the earlier version: src/server.go, lines 160-250.         *)
(* storage is a byte slice, length its recorded len, position the writer's *)
(* place in it; the reader appends buf to storage, the writer sends        *)
(* storage[position:newPosition] and then cuts storage at position.        *)

(* src/server.go line 160: buf := make([]byte, 4096), all bytes zero. *)
NewBuf == [i \in 1..ChunkSize |-> 0]

(* src/server.go after lines 108-198: PerformDump, launched by the one     *)
(* /press, has started both commands, has made buf, storage, length,       *)
(* reading and mutex (160-164) and created the two goroutines; it is at    *)
(* wg.Wait() (250).                                                        *)
InitLegacy ==
    /\ budget = [press |-> 1, bytes |-> MaxBytes]
    /\ Working = TRUE
    /\ StartTime = 1
    /\ LastRun = [Error |-> "", StartTime |-> Nil]
    /\ crashed = FALSE
    /\ pressed = 1
    /\ launched = 1
    /\ statusSeen = NoStatus
    /\ pc = [r \in Runs |-> IF r = 1 THEN "wg.Wait" ELSE "idle"]
    /\ defers = [r \in Runs |-> IF r = 1
                   THEN <<"destSession.Close", "sourceSession.Close", "settle">>
                   ELSE <<>>]
    /\ panicking = [r \in Runs |-> NoPanic]
    /\ sourceSession = [r \in Runs |-> IF r = 1 THEN "open" ELSE "none"]
    /\ destSession = [r \in Runs |-> IF r = 1 THEN "open" ELSE "none"]
    /\ started = [r \in Runs |-> IF r = 1 THEN <<"source", "dest">> ELSE <<>>]
    /\ storage = [r \in Runs |-> <<>>]
    /\ reading = [r \in Runs |-> r = 1]
    /\ bytesRead = [r \in Runs |-> 0]
    /\ bytesWritten = [r \in Runs |-> 0]
    /\ mutex = [r \in Runs |-> "free"]
    /\ rpc = [r \in Runs |-> IF r = 1 THEN "read" ELSE "idle"]
    /\ wpc = [r \in Runs |-> IF r = 1 THEN "lock" ELSE "idle"]
    /\ rbuf = [r \in Runs |-> <<>>]
    /\ currentlyReading = [r \in Runs |-> FALSE]
    /\ currentLength = [r \in Runs |-> 0]
    /\ wbuf = [r \in Runs |-> <<>>]
    /\ upstream = [r \in Runs |-> <<>>]
    /\ eof = [r \in Runs |-> FALSE]
    /\ written = [r \in Runs |-> <<>>]
    /\ writes = [r \in Runs |-> <<>>]
    /\ stdinClosed = [r \in Runs |-> 0]
    /\ waited = [r \in Runs |-> {}]
    /\ failure = [r \in Runs |-> ""]
    /\ buf = [r \in Runs |-> IF r = 1 THEN NewBuf ELSE <<>>]
    /\ length = [r \in Runs |-> 0]
    /\ position = [r \in Runs |-> 0]

(* What the legacy relay never touches. *)
legacyFrame == <<shared, pressed, launched, statusSeen, budget, super,
                 bytesRead, bytesWritten>>

(* stdoutReader.Read(buf) puts the n bytes it returns in buf[0:n] and      *)
(* leaves buf[n:] as it was.                                               *)
ReadInto(b, bytes) ==
    [i \in 1..Len(b) |-> IF i <= Len(bytes) THEN bytes[i] ELSE b[i]]

(* src/server.go lines 172-178 *)
LegacyRead(r) ==
    /\ ~crashed
    /\ rpc[r] = "read"
    /\ \E o \in ReadOutcomes(r) :
         /\ upstream' = [upstream EXCEPT ![r] = @ \o SourceBytes(Len(@), o.n)]
         /\ eof' = [eof EXCEPT ![r] = @ \/ o.err = "EOF"]
         /\ buf' = [buf EXCEPT ![r] = ReadInto(@, SourceBytes(Len(upstream[r]), o.n))]
         /\ IF o.err = "fail"
              THEN /\ GoPanic(r, "read error")
                   /\ UNCHANGED <<rpc, rbuf>>
              ELSE /\ rpc' = [rpc EXCEPT ![r] = IF o.n = 0 THEN "lockDone" ELSE "lockStore"]
                   /\ rbuf' = [rbuf EXCEPT ![r] = SourceBytes(Len(upstream[r]), o.n)]
                   /\ UNCHANGED <<crashed, failure>>
    /\ UNCHANGED <<legacyFrame, storage, reading, mutex, wpc,
                   currentlyReading, currentLength, wbuf,
                   written, writes, stdinClosed, waited, length, position>>

(* src/server.go lines 180, 186: mutex.Lock() *)
LegacyReaderLock(r) ==
    /\ ~crashed
    /\ rpc[r] \in {"lockStore", "lockDone"}
    /\ mutex[r] = "free"
    /\ mutex' = [mutex EXCEPT ![r] = "reader"]
    /\ rpc' = [rpc EXCEPT ![r] = IF @ = "lockStore" THEN "store" ELSE "setDone"]
    /\ UNCHANGED <<legacyFrame, crashed, storage, reading, wpc, rbuf,
                   currentlyReading, currentLength, wbuf, remote, legacy>>

(* src/server.go lines 181-183: storage = append(storage, buf...);         *)
(* length = len(storage); mutex.Unlock()                                   *)
LegacyAppend(r) ==
    /\ ~crashed
    /\ rpc[r] = "store"
    /\ storage' = [storage EXCEPT ![r] = @ \o buf[r]]
    /\ length' = [length EXCEPT ![r] = Len(storage'[r])]
    /\ mutex' = [mutex EXCEPT ![r] = "free"]
    /\ rpc' = [rpc EXCEPT ![r] = "read"]
    /\ UNCHANGED <<legacyFrame, crashed, reading, wpc, rbuf,
                   currentlyReading, currentLength, wbuf, remote, buf, position>>

(* src/server.go lines 187-188: reading = false; mutex.Unlock() *)
LegacySetDone(r) ==
    /\ ~crashed
    /\ rpc[r] = "setDone"
    /\ reading' = [reading EXCEPT ![r] = FALSE]
    /\ mutex' = [mutex EXCEPT ![r] = "free"]
    /\ rpc' = [rpc EXCEPT ![r] = "sourceWait"]
    /\ UNCHANGED <<legacyFrame, crashed, storage, wpc, rbuf,
                   currentlyReading, currentLength, wbuf, remote, legacy>>

(* src/server.go lines 190-195: sourceSession.Wait(), then wg.Done() *)
LegacySourceWait(r) ==
    /\ ~crashed
    /\ rpc[r] = "sourceWait"
    /\ \E ok \in BOOLEAN :
         IF ok
           THEN /\ waited' = [waited EXCEPT ![r] = @ \cup {"source"}]
                /\ rpc' = [rpc EXCEPT ![r] = "done"]
                /\ UNCHANGED <<crashed, failure>>
           ELSE /\ GoPanic(r, "Source command failed")
                /\ UNCHANGED <<waited, rpc>>
    /\ UNCHANGED <<legacyFrame, storage, reading, mutex, wpc, rbuf,
                   currentlyReading, currentLength, wbuf,
                   upstream, eof, written, writes, stdinClosed, legacy>>

(* src/server.go lines 205, 219, 235: mutex.Lock() *)
LegacyWriterLock(r) ==
    /\ ~crashed
    /\ wpc[r] \in {"lock", "lockSlice", "lockTrim"}
    /\ mutex[r] = "free"
    /\ mutex' = [mutex EXCEPT ![r] = "writer"]
    /\ wpc' = [wpc EXCEPT ![r] = CASE @ = "lock" -> "snapshot"
                                   [] @ = "lockSlice" -> "slice"
                                   [] @ = "lockTrim" -> "trim"]
    /\ UNCHANGED <<legacyFrame, crashed, storage, reading, rpc, rbuf,
                   currentlyReading, currentLength, wbuf, remote, legacy>>

(* src/server.go lines 210-212: go round again while the reader is active  *)
(* and less than chunkSize bytes lie beyond position.                      *)
LegacyDecision(isReading, len, pos) ==
    IF isReading /\ (len <= 0 \/ len - pos < Threshold) THEN "lock"
    ELSE "lockSlice"

(* src/server.go lines 206-212 *)
LegacySnapshot(r) ==
    /\ ~crashed
    /\ wpc[r] = "snapshot"
    /\ currentlyReading' = [currentlyReading EXCEPT ![r] = reading[r]]
    /\ currentLength' = [currentLength EXCEPT ![r] = length[r]]
    /\ mutex' = [mutex EXCEPT ![r] = "free"]
    /\ wpc' = [wpc EXCEPT ![r] = LegacyDecision(reading[r], length[r], position[r])]
    /\ UNCHANGED <<legacyFrame, crashed, storage, reading, rpc, rbuf, wbuf,
                   remote, legacy>>

(* src/server.go lines 214-221: slice := storage[position:newPosition] *)
LegacySlice(r) ==
    /\ ~crashed
    /\ wpc[r] = "slice"
    /\ LET newPosition == Min(position[r] + Threshold, currentLength[r])
       IN  wbuf' = [wbuf EXCEPT ![r] = SubSeq(storage[r], position[r] + 1, newPosition)]
    /\ mutex' = [mutex EXCEPT ![r] = "free"]
    /\ wpc' = [wpc EXCEPT ![r] = "write"]
    /\ UNCHANGED <<legacyFrame, crashed, storage, reading, rpc, rbuf,
                   currentlyReading, currentLength, remote, legacy>>

(* src/server.go lines 223-233: stdinWriter.Write(slice); position += delta; *)
(* break when the reader had finished and position == currentLength        *)
LegacyWrite(r) ==
    /\ ~crashed
    /\ wpc[r] = "write"
    /\ \E ok \in BOOLEAN :
         IF ok
           THEN /\ written' = [written EXCEPT ![r] = @ \o wbuf[r]]
                /\ writes' = [writes EXCEPT ![r] =
                                Append(@, [n |-> Len(wbuf[r]), open |-> reading[r]])]
                /\ position' = [position EXCEPT ![r] = @ + Len(wbuf[r])]
                /\ wpc' = [wpc EXCEPT ![r] =
                             IF ~currentlyReading[r] /\ position'[r] = currentLength[r]
                               THEN "closeStdin" ELSE "lockTrim"]
                /\ UNCHANGED <<crashed, failure>>
           ELSE /\ GoPanic(r, "write error")
                /\ UNCHANGED <<written, writes, position, wpc>>
    /\ UNCHANGED <<legacyFrame, storage, reading, mutex, rpc, rbuf,
                   currentlyReading, currentLength, wbuf,
                   upstream, eof, stdinClosed, waited, buf, length>>

(* src/server.go lines 236-239: storage = storage[position:];              *)
(* length = len(storage); position = 0; mutex.Unlock()                     *)
LegacyTrim(r) ==
    /\ ~crashed
    /\ wpc[r] = "trim"
    /\ storage' = [storage EXCEPT ![r] = SubSeq(@, position[r] + 1, Len(@))]
    /\ length' = [length EXCEPT ![r] = Len(storage'[r])]
    /\ position' = [position EXCEPT ![r] = 0]
    /\ mutex' = [mutex EXCEPT ![r] = "free"]
    /\ wpc' = [wpc EXCEPT ![r] = "lock"]
    /\ UNCHANGED <<legacyFrame, crashed, reading, rpc, rbuf,
                   currentlyReading, currentLength, wbuf, remote, buf>>

(* src/server.go line 244: stdinWriter.Close() *)
LegacyCloseStdin(r) ==
    /\ ~crashed
    /\ wpc[r] = "closeStdin"
    /\ stdinClosed' = [stdinClosed EXCEPT ![r] = @ + 1]
    /\ wpc' = [wpc EXCEPT ![r] = "destWait"]
    /\ UNCHANGED <<legacyFrame, crashed, storage, reading, mutex, rpc, rbuf,
                   currentlyReading, currentLength, wbuf,
                   upstream, eof, written, writes, waited, failure, legacy>>

(* src/server.go lines 245-248: destSession.Wait(), then wg.Done() *)
LegacyDestWait(r) ==
    /\ ~crashed
    /\ wpc[r] = "destWait"
    /\ \E ok \in BOOLEAN :
         IF ok
           THEN /\ waited' = [waited EXCEPT ![r] = @ \cup {"dest"}]
                /\ wpc' = [wpc EXCEPT ![r] = "done"]
                /\ UNCHANGED <<crashed, failure>>
           ELSE /\ GoPanic(r, "Destination command failed")
                /\ UNCHANGED <<waited, wpc>>
    /\ UNCHANGED <<legacyFrame, storage, reading, mutex, rpc, rbuf,
                   currentlyReading, currentLength, wbuf,
                   upstream, eof, written, writes, stdinClosed, legacy>>

NextLegacy ==
    \E r \in Runs :
      \/ LegacyRead(r)
      \/ LegacyReaderLock(r)
      \/ LegacyAppend(r)
      \/ LegacySetDone(r)
      \/ LegacySourceWait(r)
      \/ LegacyWriterLock(r)
      \/ LegacySnapshot(r)
      \/ LegacySlice(r)
      \/ LegacyWrite(r)
      \/ LegacyTrim(r)
      \/ LegacyCloseStdin(r)
      \/ LegacyDestWait(r)

(* The relay of src/server.go, one run, long source streams. *)
SpecLegacy == InitLegacy /\ [][NextLegacy]_vars

(* What run r has appended to storage and not yet cut away, written part   *)
(* included.                                                               *)
Appended(r) ==
    written[r] \o SubSeq(storage[r], position[r] + 1, Len(storage[r]))

(* The bytes of the last Read that are still on their way to storage. *)
Pending(r) == IF rpc[r] \in {"lockStore", "store"} THEN rbuf[r] ELSE <<>>

(* C16: in the relay of src/server.go every Read of n bytes appends        *)
(* exactly those n bytes to storage, so that what has been appended is     *)
(* what has been read, and what the writer has sent when it leaves its     *)
(* loop is what the source produced (while the process runs: a failed Read *)
(* ends it).                                                               *)
C16_AppendsWhatWasRead ==
    \A r \in Runs :
        /\ ~crashed => Appended(r) \o Pending(r) = upstream[r]
        /\ WriterLeftLoop(r) => written[r] = upstream[r]

=============================================================================
